---------------------------- MODULE Spec2Model ----------------------------
(***************************************************************************)
(* Model of the AI CRM Suite backend (src/main.py, src/schemas.py).        *)
(*                                                                         *)
(* Each HTTP handler is one action.  A request is drawn from a bounded    *)
(* set of inputs, the handler computes its response (or raises), and the  *)
(* result is left in `response`.  Python values are TLA+ strings,         *)
(* sequences and records; Python's None is the model value None.          *)
(***************************************************************************)
EXTENDS Integers, Sequences, FiniteSets, TLC

VARIABLES
    request,    \* the request being served (a record with a field `op`)
    pc,         \* "start" before the handler has run, "done" after
    response,   \* what the handler returned or raised
    handed      \* every Contact passed to create_document so far, in order

vars == <<request, pc, response, handed>>

\* Python values whose type matters are tagged with it
None == [t |-> "NoneType"]
Str(s) == [t |-> "str", v |-> s]

NoRequest == [op |-> "none"]

-----------------------------------------------------------------------------
(* Bounds of the model *)

MaxFrags == 2       \* number of fragments an input text is assembled from
MaxCollections == 11 \* number of collections the database may hold
MaxCreates == 2     \* number of contacts handed to the store in one run
MaxDocs == 2        \* number of documents the store returns to one listing

-----------------------------------------------------------------------------
(* Python string primitives *)

Min(a, b) == IF a < b THEN a ELSE b

CharAt(s, i) == SubSeq(s, i, i)

UpperChars == "ABCDEFGHIJKLMNOPQRSTUVWXYZ"
LowerChars == "abcdefghijklmnopqrstuvwxyz"

\* the lower-case form of every upper-case letter
LowerMap ==
    [ c \in { CharAt(UpperChars, i) : i \in 1..Len(UpperChars) } |->
        CharAt(LowerChars, CHOOSE i \in 1..Len(UpperChars) : CharAt(UpperChars, i) = c) ]

\* str.lower() on one character
LowerChar(c) == IF c \in DOMAIN LowerMap THEN LowerMap[c] ELSE c

\* str.lower(): every character mapped, length kept
\* (computed by halves, so that long texts do not nest deeply)
RECURSIVE LowerRange(_, _, _)
LowerRange(s, i, j) ==
    IF i > j THEN ""
    ELSE IF i = j THEN LowerChar(CharAt(s, i))
    ELSE LET m == (i + j) \div 2
         IN  LowerRange(s, i, m) \o LowerRange(s, m + 1, j)

Lower(s) == LowerRange(s, 1, Len(s))

\* the characters str.strip() removes, among those the inputs use
IsSpace(c) == c \in {" ", "\t", "\n"}

\* str.strip(): drop the leading and the trailing run of whitespace
RECURSIVE LStripFrom(_, _)
LStripFrom(s, i) ==
    IF i > Len(s) THEN Len(s) + 1
    ELSE IF IsSpace(CharAt(s, i)) THEN LStripFrom(s, i + 1) ELSE i

RECURSIVE RStripFrom(_, _)
RStripFrom(s, j) ==
    IF j < 1 THEN 0
    ELSE IF IsSpace(CharAt(s, j)) THEN RStripFrom(s, j - 1) ELSE j

\* a variant that trims the leading whitespace only (lstrip)
StripLeftOnly(s) ==
    LET i == LStripFrom(s, 1)
    IN  IF i > Len(s) THEN "" ELSE SubSeq(s, i, Len(s))

Strip(s) ==
    LET i == LStripFrom(s, 1)
    IN  IF i > Len(s) THEN "" ELSE SubSeq(s, i, RStripFrom(s, Len(s)))

\* Python's `k in s` for strings: k occurs as a contiguous substring of s
Contains(s, k) ==
    \E i \in 1..(Len(s) - Len(k) + 1) : SubSeq(s, i, i + Len(k) - 1) = k

\* Python's s[:n]
Prefix(s, n) == SubSeq(s, 1, Min(n, Len(s)))

-----------------------------------------------------------------------------
(* POST /api/ai/insights *)

SummaryLimit == 160

MeetingKeywords == <<"meeting", "call", "sync", "demo">>
PricingKeywords == <<"price", "budget", "quote", "discount">>
IntegrationKeywords == <<"integration", "api", "trial", "pilot">>
PositiveKeywords == <<"great", "good", "excited", "love">>
NegativeKeywords == <<"concern", "issue", "problem", "delay">>

FallbackItems ==
    << "Send a thank-you email",
       "Log the conversation in the CRM",
       "Set a reminder to follow up in 3 days" >>

\* a variant that matches without lower-casing the text
AnyKeywordCaseSensitive(text, keywords) ==
    \E n \in 1..Len(keywords) : Contains(text, keywords[n])

\* any(k in text.lower() for k in keywords)
AnyKeyword(text, keywords) ==
    LET low == Lower(text)
    IN  \E n \in 1..Len(keywords) : Contains(low, keywords[n])

\* a variant that makes room for the "..." inside the limit
SummaryWithinLimit(text) ==
    IF text # ""
    THEN IF Len(text) > SummaryLimit
         THEN Prefix(text, SummaryLimit - 3) \o "..."
         ELSE text
    ELSE "No input provided"

Summary(text) ==
    IF text # ""
    THEN Prefix(text, SummaryLimit) \o (IF Len(text) > SummaryLimit THEN "..." ELSE "")
    ELSE "No input provided"

ActionItems(text) ==
    LET a1 == IF AnyKeyword(text, MeetingKeywords)
              THEN <<"Schedule a follow-up meeting">> ELSE <<>>
        a2 == IF AnyKeyword(text, PricingKeywords)
              THEN Append(a1, "Send pricing proposal") ELSE a1
        a3 == IF AnyKeyword(text, IntegrationKeywords)
              THEN Append(a2, "Share technical integration guide") ELSE a2
    IN  IF a3 = <<>> THEN FallbackItems ELSE a3

\* a variant that looks for the negative keywords first
SentimentNegativeFirst(text) ==
    IF AnyKeyword(text, NegativeKeywords) THEN "negative"
    ELSE IF AnyKeyword(text, PositiveKeywords) THEN "positive"
    ELSE "neutral"

Sentiment(text) ==
    IF AnyKeyword(text, PositiveKeywords) THEN "positive"
    ELSE IF AnyKeyword(text, NegativeKeywords) THEN "negative"
    ELSE "neutral"

\* a variant that is confident of positive texts only
ConfidencePositiveOnly(sentiment) == IF sentiment = "positive" THEN "0.72" ELSE "0.55"

\* 0.72 and 0.55 are kept as the decimal literals of the source
Confidence(sentiment) == IF sentiment # "neutral" THEN "0.72" ELSE "0.55"

Insights(rawtext) ==
    LET text == Strip(rawtext)
        sentiment == Sentiment(text)
    IN  [ kind         |-> "return",
          summary      |-> Summary(text),
          sentiment    |-> sentiment,
          action_items |-> ActionItems(text),
          confidence   |-> Confidence(sentiment) ]

generate_insights ==
    /\ pc = "start"
    /\ request.op = "insights"
    /\ response' = Insights(request.text)
    /\ pc' = "done"
    /\ UNCHANGED <<request, handed>>

\* Input texts: every concatenation of at most MaxFrags fragments.
RECURSIVE Repeat(_, _)
Repeat(s, n) ==
    IF n = 0 THEN ""
    ELSE IF n = 1 THEN s
    ELSE Repeat(s, n \div 2) \o Repeat(s, n - (n \div 2))

Pad == Repeat("z", SummaryLimit)          \* exactly SummaryLimit characters
PadOver == Pad \o "!"                     \* one character more

Fragments ==
    { " ", "\t", "\n", "z", Pad, PadOver,
      "It's fine", "just checking in",
      "Let's schedule a call to discuss pricing",
      "This is a great integration, I love it",
      "We have a problem with delay",
      "meeting", "Call", "sync", "DEMO",
      "price", "Budget", "quote", "discount",
      "integration", "API", "trial", "pilot",
      "great", "Good", "excited", "LOVE",
      "concern", "issue", "Problem", "delay" }

RECURSIVE Concat(_)
Concat(fs) == IF fs = <<>> THEN "" ELSE Head(fs) \o Concat(Tail(fs))

Texts == { Concat(fs) : fs \in UNION { [1..n -> Fragments] : n \in 0..MaxFrags } }

InitInsights ==
    /\ request \in { [op |-> "insights", text |-> t] : t \in Texts }
    /\ pc = "start"
    /\ response = None
    /\ handed = <<>>

NextInsights == generate_insights

SpecInsights == InitInsights /\ [][NextInsights]_vars

-----------------------------------------------------------------------------
(* Properties of POST /api/ai/insights *)

InsightsDone == pc = "done" /\ request.op = "insights"

\* The text without its leading and trailing whitespace, stated by positions:
\* it runs from the first to the last non-whitespace character.
TrimmedOf(raw) ==
    IF \A k \in 1..Len(raw) : IsSpace(CharAt(raw, k)) THEN ""
    ELSE LET first == CHOOSE k \in 1..Len(raw) :
                          /\ ~IsSpace(CharAt(raw, k))
                          /\ \A m \in 1..(k - 1) : IsSpace(CharAt(raw, m))
             last  == CHOOSE k \in 1..Len(raw) :
                          /\ ~IsSpace(CharAt(raw, k))
                          /\ \A m \in (k + 1)..Len(raw) : IsSpace(CharAt(raw, m))
         IN  SubSeq(raw, first, last)

\* keyword k occurs in raw at some position, letter case ignored
Occurs(raw, k) ==
    \E i \in 1..(Len(raw) - Len(k) + 1) :
        \A m \in 1..Len(k) : LowerChar(CharAt(raw, i + m - 1)) = CharAt(k, m)

AnyOccurs(raw, ks) == \E k \in ks : Occurs(raw, k)

\* C1: the summary is "No input provided" when the trimmed text is empty,
\* and otherwise the first 160 characters of the trimmed text, followed by
\* "..." if and only if the trimmed text is longer than 160 characters.
C1_SummaryOfTrimmed ==
    InsightsDone =>
        LET t == TrimmedOf(request.text)
        IN  /\ t = "" => response.summary = "No input provided"
            /\ (t # "" /\ Len(t) <= 160) => response.summary = t
            /\ Len(t) > 160 => response.summary = SubSeq(t, 1, 160) \o "..."

\* a text with whitespace around a non-empty body has been summarised
C1_Witness ==
    /\ InsightsDone
    /\ request.text # TrimmedOf(request.text)
    /\ TrimmedOf(request.text) # ""
    /\ response.summary = TrimmedOf(request.text)

\* a whitespace-only text has been summarised
C1_WitnessBlank ==
    /\ InsightsDone
    /\ request.text # ""
    /\ response.summary = "No input provided"

\* C2 (as stated): for every text longer than 160 characters, the summary is
\* the first 160 characters of that text plus "...", 163 characters long.
C2_LongTextSummary ==
    (InsightsDone /\ Len(request.text) > 160) =>
        /\ response.summary = SubSeq(request.text, 1, 160) \o "..."
        /\ Len(response.summary) = 163

\* C2 (amended): for every text whose trimmed form is longer than 160
\* characters, the summary is the first 160 characters of the trimmed text
\* plus "...", 163 characters long.
C2_LongTrimmedSummary ==
    (InsightsDone /\ Len(TrimmedOf(request.text)) > 160) =>
        /\ response.summary = SubSeq(TrimmedOf(request.text), 1, 160) \o "..."
        /\ Len(response.summary) = 163

\* a text with leading whitespace and a long body has been summarised
C2_Witness ==
    /\ InsightsDone
    /\ Len(TrimmedOf(request.text)) > 160
    /\ request.text # TrimmedOf(request.text)
    /\ IsSpace(CharAt(request.text, 1))
    /\ Len(response.summary) = 163

\* C3: action_items lists, in this order and at most once each, the item of
\* every keyword group that occurs in the text (letter case ignored); it is
\* the three fallback items exactly when no group occurs.
C3_ActionItems ==
    InsightsDone =>
        LET g1 == AnyOccurs(request.text, {"meeting", "call", "sync", "demo"})
            g2 == AnyOccurs(request.text, {"price", "budget", "quote", "discount"})
            g3 == AnyOccurs(request.text, {"integration", "api", "trial", "pilot"})
            items == (IF g1 THEN <<"Schedule a follow-up meeting">> ELSE <<>>)
                     \o (IF g2 THEN <<"Send pricing proposal">> ELSE <<>>)
                     \o (IF g3 THEN <<"Share technical integration guide">> ELSE <<>>)
            fallback == << "Send a thank-you email",
                           "Log the conversation in the CRM",
                           "Set a reminder to follow up in 3 days" >>
        IN  /\ response.action_items = (IF g1 \/ g2 \/ g3 THEN items ELSE fallback)
            /\ response.action_items # <<>>
            /\ (response.action_items = fallback) <=> ~(g1 \/ g2 \/ g3)

\* two groups occurred, written in the text in the reverse of the fixed order
C3_Witness ==
    /\ InsightsDone
    /\ Occurs(request.text, "api")
    /\ Occurs(request.text, "call")
    /\ ~Occurs(SubSeq(request.text, 1, 4), "call")
    /\ response.action_items =
           <<"Schedule a follow-up meeting", "Share technical integration guide">>

\* C4: sentiment is "positive" whenever a positive keyword occurs, even if a
\* negative keyword occurs too; "negative" only when no positive keyword
\* occurs and a negative one does; "neutral" otherwise.
C4_Sentiment ==
    InsightsDone =>
        LET pos == AnyOccurs(request.text, {"great", "good", "excited", "love"})
            neg == AnyOccurs(request.text, {"concern", "issue", "problem", "delay"})
        IN  /\ pos => response.sentiment = "positive"
            /\ (~pos /\ neg) => response.sentiment = "negative"
            /\ (~pos /\ ~neg) => response.sentiment = "neutral"

\* a text with a negative keyword before a positive one was rated positive
C4_Witness ==
    /\ InsightsDone
    /\ AnyOccurs(request.text, {"concern", "issue", "problem", "delay"})
    /\ AnyOccurs(request.text, {"great", "good", "excited", "love"})
    /\ ~AnyOccurs(SubSeq(request.text, 1, 7), {"great", "good", "excited", "love"})
    /\ response.sentiment = "positive"

\* C5: confidence is 0.72 exactly when sentiment is "positive" or
\* "negative", 0.55 exactly when it is "neutral", and never anything else.
C5_Confidence ==
    InsightsDone =>
        /\ response.confidence \in {"0.72", "0.55"}
        /\ (response.confidence = "0.72") <=> (response.sentiment \in {"positive", "negative"})
        /\ (response.confidence = "0.55") <=> (response.sentiment = "neutral")

\* a negative text got confidence 0.72
C5_Witness ==
    /\ InsightsDone
    /\ response.sentiment = "negative"
    /\ response.confidence = "0.72"

-----------------------------------------------------------------------------
(* GET /test *)
(* The status marks of the source (check mark, cross, warning sign) are    *)
(* written OK, NO and WARN.                                                 *)

ErrorLimit == 50
CollectionLimit == 10

\* isinstance(e, ImportError) and isinstance(e, Exception), for the
\* exception classes the inputs use
IsImportError(exc) == exc.cls \in {"ImportError", "ModuleNotFoundError"}
IsException(exc) == exc.cls \in {"ImportError", "ModuleNotFoundError", "RuntimeError"}

\* the response dict as first built
InitialResponse ==
    [ backend           |-> "OK Running",
      database          |-> "NO Not Available",
      database_url      |-> None,
      database_name     |-> None,
      connection_status |-> "Not Connected",
      collections       |-> <<>> ]

\* db.list_collection_names() and what follows it, inside the inner try
ListCollections(r, db) ==
    IF db.list.kind = "raise"
    THEN [r EXCEPT !.database =
             "WARN Connected but Error: " \o Prefix(db.list.exc.msg, ErrorLimit)]
    ELSE [r EXCEPT !.collections = Prefix(db.list.names, CollectionLimit),
                   !.database = "OK Connected & Working"]

\* the body of the outer try: the import, then the branch on db.
\* Yields the response dict so far and the exception that escaped, if any.
TryBody(world) ==
    IF world.import.kind = "raise"
    THEN [r |-> InitialResponse, raised |-> TRUE, exc |-> world.import.exc]
    ELSE LET db == world.import.db
         IN  IF db # None
             THEN [ r |-> ListCollections(
                              [InitialResponse EXCEPT
                                  !.database = "OK Available",
                                  !.database_url = Str("OK Configured"),
                                  !.database_name =
                                      IF db.has_name THEN Str(db.name)
                                      ELSE Str("OK Connected"),
                                  !.connection_status = "Connected"],
                              db),
                    raised |-> FALSE ]
             ELSE [ r |-> [InitialResponse EXCEPT
                              !.database = "WARN Available but not initialized"],
                    raised |-> FALSE ]

\* a variant without the generic `except Exception` clause
ExceptImportErrorOnly(out) ==
    IF ~out.raised THEN out
    ELSE IF IsImportError(out.exc)
    THEN [ r |-> [out.r EXCEPT !.database =
                     "NO Database module not found (run enable-database first)"],
           raised |-> FALSE ]
    ELSE out

\* the except clauses of the outer try
ExceptClauses(out) ==
    IF ~out.raised THEN out
    ELSE IF IsImportError(out.exc)
    THEN [ r |-> [out.r EXCEPT !.database =
                     "NO Database module not found (run enable-database first)"],
           raised |-> FALSE ]
    ELSE IF IsException(out.exc)
    THEN [ r |-> [out.r EXCEPT !.database =
                     "NO Error: " \o Prefix(out.exc.msg, ErrorLimit)],
           raised |-> FALSE ]
    ELSE out

\* bool(os.getenv(name)): unset and empty are both false
Truthy(v) == v # None /\ v # Str("")

\* a variant that fills in only the indicators still unset
CheckEnvIfUnset(r, env) ==
    [r EXCEPT !.database_url =
                  IF r.database_url # None THEN r.database_url
                  ELSE IF Truthy(env.DATABASE_URL) THEN Str("OK Set") ELSE Str("NO Not Set"),
              !.database_name =
                  IF r.database_name # None THEN r.database_name
                  ELSE IF Truthy(env.DATABASE_NAME) THEN Str("OK Set") ELSE Str("NO Not Set")]

\* the check of the environment variables
CheckEnv(r, env) ==
    [r EXCEPT !.database_url =
                  IF Truthy(env.DATABASE_URL) THEN Str("OK Set") ELSE Str("NO Not Set"),
              !.database_name =
                  IF Truthy(env.DATABASE_NAME) THEN Str("OK Set") ELSE Str("NO Not Set")]

TestDatabase(world) ==
    LET out == ExceptClauses(TryBody(world))
    IN  IF out.raised
        THEN [kind |-> "raise", exc |-> out.exc]
        ELSE [kind |-> "return", body |-> CheckEnv(out.r, world.env)]

test_database ==
    /\ pc = "start"
    /\ request.op = "test"
    /\ response' = TestDatabase(request.world)
    /\ pc' = "done"
    /\ UNCHANGED <<request, handed>>

\* The states of the store and of the environment the probe may meet.
ShortMessage == "connection refused"
LongMessage == "ServerSelectionTimeoutError: localhost:27017: [Errno 111] Connection refused"

Exceptions ==
    { [cls |-> c, msg |-> m] :
        c \in {"ImportError", "ModuleNotFoundError", "RuntimeError"},
        m \in {ShortMessage, LongMessage} }

CollectionNames(n) == [i \in 1..n |-> "collection" \o ToString(i)]

ListOutcomes ==
    { [kind |-> "raise", exc |-> e] : e \in Exceptions }
    \cup { [kind |-> "return", names |-> CollectionNames(n)] : n \in 0..MaxCollections }

Databases ==
    { [has_name |-> TRUE, name |-> "crm", list |-> l] : l \in ListOutcomes }
    \cup { [has_name |-> FALSE, list |-> l] : l \in ListOutcomes }

ImportOutcomes ==
    { [kind |-> "raise", exc |-> e] : e \in Exceptions }
    \cup { [kind |-> "ok", db |-> d] : d \in Databases \cup {None} }

EnvValues == {None, Str(""), Str("mongodb://localhost:27017")}

Environments == [DATABASE_URL : EnvValues, DATABASE_NAME : EnvValues]

Worlds == [import : ImportOutcomes, env : Environments]

InitTest ==
    /\ request \in { [op |-> "test", world |-> w] : w \in Worlds }
    /\ pc = "start"
    /\ response = None
    /\ handed = <<>>

NextTest == test_database

SpecTest == InitTest /\ [][NextTest]_vars

-----------------------------------------------------------------------------
(* Properties of GET /test *)

TestDone == pc = "done" /\ request.op = "test"

First50(s) == IF Len(s) > 50 THEN SubSeq(s, 1, 50) ELSE s

\* C6: the probe never raises; whatever fails (module missing, import
\* raising another exception, db being None, listing the collections
\* raising), it returns the diagnostics object with the failure described
\* in its database field.
C6_ProbeNeverRaises ==
    TestDone =>
        LET imp == request.world.import
        IN  /\ response.kind = "return"
            /\ DOMAIN response.body =
                   { "backend", "database", "database_url", "database_name",
                     "connection_status", "collections" }
            /\ (imp.kind = "raise" /\ imp.exc.cls \in {"ImportError", "ModuleNotFoundError"})
                   => response.body.database =
                          "NO Database module not found (run enable-database first)"
            /\ (imp.kind = "raise" /\ imp.exc.cls \notin {"ImportError", "ModuleNotFoundError"})
                   => response.body.database = "NO Error: " \o First50(imp.exc.msg)
            /\ (imp.kind = "ok" /\ imp.db = None)
                   => response.body.database = "WARN Available but not initialized"
            /\ (imp.kind = "ok" /\ imp.db # None /\ imp.db.list.kind = "raise")
                   => response.body.database =
                          "WARN Connected but Error: " \o First50(imp.db.list.exc.msg)

\* the import raised something other than ImportError, with a long message,
\* and the probe returned
C6_Witness ==
    /\ TestDone
    /\ request.world.import.kind = "raise"
    /\ request.world.import.exc.cls = "RuntimeError"
    /\ Len(request.world.import.exc.msg) > 50
    /\ response.kind = "return"
    /\ Len(response.body.database) = 60

\* listing the collections raised and the probe returned
C6_WitnessListing ==
    /\ TestDone
    /\ request.world.import.kind = "ok"
    /\ request.world.import.db # None
    /\ request.world.import.db.list.kind = "raise"
    /\ response.kind = "return"

StoreMissing ==
    \/ request.world.import.kind = "raise"
    \/ request.world.import.db = None

\* C7 (as stated): database_url and database_name are tri-state: "set" or
\* "not set", and "not applicable" (the null the response starts with) when
\* the probe found no store to apply them to.
C7_TriState ==
    (TestDone /\ response.kind = "return") =>
        /\ response.body.database_url \in {Str("OK Set"), Str("NO Not Set"), None}
        /\ response.body.database_name \in {Str("OK Set"), Str("NO Not Set"), None}
        /\ StoreMissing => /\ response.body.database_url = None
                           /\ response.body.database_name = None

\* C7 (amended): database_url and database_name are two-state: "set" when
\* the environment variable is present and not empty, "not set" otherwise,
\* whatever the state of the store; null is never reported.
C7_TwoState ==
    (TestDone /\ response.kind = "return") =>
        LET env == request.world.env
            present(v) == v \notin {None, Str("")}
        IN  /\ response.body.database_url =
                   (IF present(env.DATABASE_URL) THEN Str("OK Set") ELSE Str("NO Not Set"))
            /\ response.body.database_name =
                   (IF present(env.DATABASE_NAME) THEN Str("OK Set") ELSE Str("NO Not Set"))

\* the probe found a live database with a name, one variable set and the
\* other one empty
C7_Witness ==
    /\ TestDone
    /\ request.world.import.kind = "ok"
    /\ request.world.import.db # None
    /\ request.world.import.db.has_name
    /\ request.world.env.DATABASE_URL = Str("mongodb://localhost:27017")
    /\ request.world.env.DATABASE_NAME = Str("")
    /\ response.body.database_url = Str("OK Set")
    /\ response.body.database_name = Str("NO Not Set")

-----------------------------------------------------------------------------
(* schemas.Contact: validation of a request body *)

Absent == [t |-> "absent"]
PyInt(n) == [t |-> "int", v |-> n]
ObjectId(hex) == [t |-> "ObjectId", v |-> hex]

IsStr(v) == v.t = "str"

Has(d, f) == f \in DOMAIN d

StatusLiterals == {Str("lead"), Str("prospect"), Str("customer"), Str("churned")}

\* EmailStr, reduced to its shape: one "@", a local part, a dotted domain
IsEmail(s) ==
    \E i \in 2..(Len(s) - 1) :
        /\ CharAt(s, i) = "@"
        /\ ~Contains(SubSeq(s, 1, i - 1), "@")
        /\ ~Contains(SubSeq(s, i + 1, Len(s)), "@")
        /\ \E j \in (i + 2)..(Len(s) - 1) : CharAt(s, j) = "."

\* a required str field
RequiredStrOk(body, f) == Has(body, f) /\ IsStr(body[f])

\* an Optional[str] field with default None
OptionalStrOk(body, f) == Has(body, f) => (body[f] = None \/ IsStr(body[f]))

\* Optional[EmailStr] with default None
EmailOk(body) ==
    Has(body, "email") =>
        \/ body.email = None
        \/ IsStr(body.email) /\ IsEmail(body.email.v)

\* a variant that takes any string as a status
StatusAnyStr(body) == Has(body, "status") => IsStr(body.status)

\* Literal['lead','prospect','customer','churned'] with default 'lead'
StatusOk(body) == Has(body, "status") => body.status \in StatusLiterals

\* the fields of the body that fail validation
FieldErrors(body) ==
    { f \in {"first_name", "last_name"} : ~RequiredStrOk(body, f) }
    \cup { f \in {"phone", "company", "title", "owner"} : ~OptionalStrOk(body, f) }
    \cup (IF EmailOk(body) THEN {} ELSE {"email"})
    \cup (IF StatusOk(body) THEN {} ELSE {"status"})

Default(body, f, dflt) == IF Has(body, f) THEN body[f] ELSE dflt

\* the validated Contact: every field present, defaults filled in
Contact(body) ==
    [ first_name |-> body.first_name,
      last_name  |-> body.last_name,
      email      |-> Default(body, "email", None),
      phone      |-> Default(body, "phone", None),
      company    |-> Default(body, "company", None),
      title      |-> Default(body, "title", None),
      status     |-> Default(body, "status", Str("lead")),
      owner      |-> Default(body, "owner", None) ]

-----------------------------------------------------------------------------
(* POST /api/contacts and GET /api/contacts *)

\* str(e) of an exception raised with one message argument
ExcStr(exc) == exc.msg

HTTPException(code, detail) ==
    [kind |-> "http_error", status_code |-> code, detail |-> detail]

\* a variant that swallows the store's failure
CreateContactSwallow(outcome) ==
    [kind |-> "return",
     body |-> [id |-> IF outcome.kind = "return" THEN outcome.id ELSE None,
               status |-> "created"]]

\* the handler body, given what create_document("contact", contact) did
CreateContact(outcome) ==
    IF outcome.kind = "return"
    THEN [kind |-> "return", body |-> [id |-> outcome.id, status |-> "created"]]
    ELSE HTTPException(500, ExcStr(outcome.exc))

\* str(x) for the identifier types the store uses
PyStr(x) ==
    CASE x.t = "str"      -> x
      [] x.t = "ObjectId" -> Str(x.v)
      [] x.t = "int"      -> Str(ToString(x.v))
      [] x.t = "NoneType" -> Str("None")

\* a variant that copies the identifier and leaves `_id` in place
RenameIdKeep(d) ==
    IF Has(d, "_id")
    THEN [ f \in DOMAIN d \cup {"id"} |->
             IF f = "id" THEN PyStr(d["_id"]) ELSE d[f] ]
    ELSE d

\* if "_id" in d: d["id"] = str(d.pop("_id"))
RenameId(d) ==
    IF Has(d, "_id")
    THEN [ f \in (DOMAIN d \ {"_id"}) \cup {"id"} |->
             IF f = "id" THEN PyStr(d["_id"]) ELSE d[f] ]
    ELSE d

\* the handler body, given what get_documents("contact", limit=limit) did
ListContacts(outcome) ==
    IF outcome.kind = "return"
    THEN [kind |-> "return",
          body |-> [i \in 1..Len(outcome.docs) |-> RenameId(outcome.docs[i])]]
    ELSE HTTPException(500, ExcStr(outcome.exc))

\* Request bodies: each field absent or one of a few values.  One family
\* varies the status of an otherwise complete body, the other varies the
\* remaining fields of a body without status.
Body(choice) == [f \in {g \in DOMAIN choice : choice[g] # Absent} |-> choice[f]]

Payloads ==
    { Body(c) : c \in
        [ first_name : {Str("Ada")},
          last_name  : {Str("Lovelace")},
          status     : {Absent, None, Str("archived"), Str("Lead")} \cup StatusLiterals ] }
    \cup
    { Body(c) : c \in
        [ first_name : {Absent, Str("Ada"), PyInt(5)},
          last_name  : {Absent, Str("Lovelace")},
          email      : {Absent, Str("ada@example.com"), Str("not-an-email")} ] }

StoreErrors ==
    { [cls |-> "Exception", msg |-> "Database not available"],
      [cls |-> "ServerSelectionTimeoutError", msg |-> LongMessage] }

NotCalled == [kind |-> "not called"]

CreateOutcomes ==
    { [kind |-> "return", id |-> Str("65f1a0c2")] }
    \cup { [kind |-> "raise", exc |-> e] : e \in StoreErrors }

\* Documents as the store may return them
StoredDocs ==
    { [_id |-> ObjectId("65f1a0c2"), first_name |-> Str("Ada"), status |-> Str("lead")],
      [_id |-> PyInt(7), id |-> Str("legacy-9"), first_name |-> Str("Bob")],
      [id |-> Str("65f1a0c4"), first_name |-> Str("Cy")],
      [first_name |-> Str("Di"), status |-> Str("customer")] }

StoreListings ==
    { [kind |-> "return", docs |-> ds] :
        ds \in UNION { [1..n -> StoredDocs] : n \in 0..MaxDocs } }
    \cup { [kind |-> "raise", exc |-> e] : e \in StoreErrors }

DefaultLimit == 20

Limits == {Absent, PyInt(1)}

create_contact ==
    /\ pc = "idle"
    /\ Len(handed) < MaxCreates
    /\ \E body \in Payloads :
        IF FieldErrors(body) # {}
        THEN \* rejected before the handler runs: the store is not called
             /\ request' = [op |-> "create", payload |-> body, store |-> NotCalled]
             /\ response' = [kind |-> "validation_error", status_code |-> 422,
                             fields |-> FieldErrors(body)]
             /\ handed' = handed
        ELSE \E outcome \in CreateOutcomes :
             /\ request' = [op |-> "create", payload |-> body, store |-> outcome]
             /\ handed' = Append(handed, Contact(body))
             /\ response' = CreateContact(outcome)
    /\ UNCHANGED pc

list_contacts ==
    /\ pc = "idle"
    /\ \E given \in Limits, outcome \in StoreListings :
        /\ request' = [op |-> "list",
                       limit |-> IF given = Absent THEN PyInt(DefaultLimit) ELSE given,
                       store |-> outcome]
        /\ response' = ListContacts(outcome)
    /\ UNCHANGED <<pc, handed>>

InitContacts ==
    /\ request = NoRequest
    /\ pc = "idle"
    /\ response = None
    /\ handed = <<>>

NextContacts == create_contact \/ list_contacts

SpecContacts == InitContacts /\ [][NextContacts]_vars

-----------------------------------------------------------------------------
(* Properties of the contact endpoints *)

CreateHandled == request.op = "create" /\ request.store # NotCalled

\* C8: for a validated Contact, the response is exactly {id: the identifier
\* the store returned, status: "created"} if the store's create succeeded;
\* if it failed, the caller gets an HTTP 500 whose detail is the store's
\* error message, and never a "created" response.
C8_CreateResponse ==
    CreateHandled =>
        /\ request.store.kind = "return" =>
               response = [kind |-> "return",
                           body |-> [id |-> request.store.id, status |-> "created"]]
        /\ request.store.kind = "raise" =>
               /\ response.kind = "http_error"
               /\ response.status_code = 500
               /\ response.detail = request.store.exc.msg

\* the store failed with a long message and the caller got the 500
C8_Witness ==
    /\ CreateHandled
    /\ request.store.kind = "raise"
    /\ Len(request.store.exc.msg) > 50
    /\ response.kind = "http_error"
    /\ response.detail = request.store.exc.msg

ListReturned ==
    request.op = "list" /\ request.store.kind = "return" /\ response.kind = "return"

\* the string form of a store identifier
StringForm(x) == IF x.t = "int" THEN ToString(x.v) ELSE x.v

\* document `out` is document `in` with `_id` replaced by its string form as `id`
Renamed(in, out) ==
    /\ "id" \in DOMAIN out
    /\ out.id.t = "str"
    /\ "_id" \notin DOMAIN out
    /\ "_id" \in DOMAIN in
    /\ out.id.v = StringForm(in["_id"])
    /\ DOMAIN out \ {"id"} = DOMAIN in \ {"_id", "id"}
    /\ \A f \in DOMAIN out \ {"id"} : out[f] = in[f]

\* C9 (as stated): for every sequence of documents the store returns, every
\* document of the response has a string `id`, the string form of its
\* internal identifier, and no `_id`; other fields and the order are kept.
C9_EveryDocumentHasId ==
    ListReturned =>
        /\ Len(response.body) = Len(request.store.docs)
        /\ \A i \in 1..Len(response.body) :
               Renamed(request.store.docs[i], response.body[i])

\* C9 (amended): every document the store returns with an `_id` is returned
\* with `id` the string form of that `_id` and without `_id`, its other
\* fields kept; a document the store returns without `_id` is returned
\* unchanged; the order is kept.
C9_DocumentsWithInternalId ==
    ListReturned =>
        /\ Len(response.body) = Len(request.store.docs)
        /\ \A i \in 1..Len(response.body) :
               IF "_id" \in DOMAIN request.store.docs[i]
               THEN Renamed(request.store.docs[i], response.body[i])
               ELSE response.body[i] = request.store.docs[i]

\* two documents were listed, the first with an `_id` that is not a string
\* and the second without `_id`
C9_Witness ==
    /\ ListReturned
    /\ Len(request.store.docs) = 2
    /\ "_id" \in DOMAIN request.store.docs[1]
    /\ request.store.docs[1]["_id"].t = "int"
    /\ response.body[1].id = Str("7")
    /\ "_id" \notin DOMAIN request.store.docs[2]
    /\ "id" \notin DOMAIN response.body[2]

AllowedStatus == {Str("lead"), Str("prospect"), Str("customer"), Str("churned")}

\* C10: after any sequence of create requests, every Contact handed to the
\* store has a status among lead, prospect, customer, churned; a request
\* with a status outside that set is rejected and hands nothing to the
\* store; a request accepted without a status hands over status "lead".
C10_StatusValidated ==
    /\ [](\A i \in 1..Len(handed) : handed[i].status \in AllowedStatus)
    /\ [][ request'.op = "create" =>
             LET body == request'.payload
             IN  /\ ("status" \in DOMAIN body /\ body.status \notin AllowedStatus)
                        => /\ response'.kind = "validation_error"
                           /\ handed' = handed
                 /\ ("status" \notin DOMAIN body /\ response'.kind # "validation_error")
                        => /\ Len(handed') = Len(handed) + 1
                           /\ SubSeq(handed', 1, Len(handed)) = handed
                           /\ handed'[Len(handed')].status = Str("lead")
         ]_vars

\* after a first contact, a request without a status was accepted and
\* handed over as a lead
C10_Witness ==
    /\ request.op = "create"
    /\ "status" \notin DOMAIN request.payload
    /\ response.kind = "return"
    /\ Len(handed) = 2
    /\ handed[1].status = Str("churned")
    /\ handed[2].status = Str("lead")

\* a request with status "archived" was rejected after a first contact
C10_WitnessRejected ==
    /\ request.op = "create"
    /\ "status" \in DOMAIN request.payload
    /\ request.payload.status = Str("archived")
    /\ response.kind = "validation_error"
    /\ Len(handed) = 1

=============================================================================
